---- MODULE Spec2Model ----
(***************************************************************************)
(* Model of core/models.py: the abstract BaseModel (soft deletion, ext_id  *)
(* generation, audit logging through LogEntry) and the tables of its       *)
(* concrete subclasses.                                                    *)
(*                                                                         *)
(* An optional value (a nullable column, a Python None) is a sequence of   *)
(* length 0 or 1: None is <<>> and the value v is <<v>>.  An ext_id is a   *)
(* sequence of one-character strings; the unset ext_id ('' or None, both   *)
(* falsy in `if not self.ext_id`) is the empty sequence.                   *)
(***************************************************************************)
EXTENDS Integers, Sequences, FiniteSets, TLC

\* ---- bounds of the model ------------------------------------------------
\* Number of in-memory model instances the callers construct.
NumRecs == 2
\* Number of distinct characters random.choice is let to draw.
NumChars == 2
\* Number of LogEntry rows written in a behaviour.
MaxLogs == 2
\* Number of log_action calls the callers make themselves.
MaxLogCalls == 1
\* Number of nested generate_unique_ext calls the interpreter's stack holds
\* before it raises RecursionError (sys.getrecursionlimit() in CPython).
RecursionLimit == 3

\* ---- program constants --------------------------------------------------
\* generate_ext(length=10), generate_unique_ext(instance, length=10)
DefaultLength == 10

\* string.ascii_lowercase + string.digits
Alphabet ==
    << "a", "b", "c", "d", "e", "f", "g", "h", "i", "j", "k", "l", "m",
       "n", "o", "p", "q", "r", "s", "t", "u", "v", "w", "x", "y", "z",
       "0", "1", "2", "3", "4", "5", "6", "7", "8", "9" >>

\* django.contrib.admin.models: ADDITION, CHANGE, DELETION
ADDITION == "ADDITION"
CHANGE == "CHANGE"
DELETION == "DELETION"
ActionFlags == {ADDITION, CHANGE, DELETION}

\* Concrete subclasses of BaseModel whose tables are modelled; each has a
\* table, a content type and a unique index on ext_id of its own.
Types == {"Temple", "Product"}

\* auth.User rows that act; NoUser is Python's None in a user position.
Users == {"u1", "u2"}
NoUser == "None"

None == << >>
Some(v) == << v >>

RecIds == 1..NumRecs

VARIABLES
    inst,    \* inst[r]: the fields of the r-th in-memory model instance
    store,   \* store[t]: the table of concrete type t, a sequence indexed by id
    logs,    \* the LogEntry table, in insertion order
    clock,   \* the last value timezone.now() returned
    last,    \* the last call made and how it ended
    gen      \* the generate_unique_ext call in progress, when followed step by step

vars == << inst, store, logs, clock, last, gen >>

\* ---- ext_id generation --------------------------------------------------
\* The characters random.choice draws in this model: NumChars of Alphabet,
\* taken alternately from the letters and the digits.
DrawPool == { Alphabet[1 + ((k * 26) % 36) + (k \div 2)] : k \in 0..(NumChars - 1) }

GenerateExtShort(length) ==
    { [i \in 1..(length - 1) |-> c] : c \in DrawPool }

\* generate_ext(length): the strings a call can return (every draw of a
\* call gives the same character of DrawPool: a bound on the randomness).
GenerateExt(length) ==
    { [i \in 1..length |-> c] : c \in DrawPool }

\* ---- managers -----------------------------------------------------------
RECURSIVE OrderById(_)
\* order_by('id') over a set of ids: ascending sequence.
OrderById(ids) ==
    IF ids = {} THEN << >>
    ELSE LET m == CHOOSE x \in ids : \A y \in ids : x <= y
         IN << m >> \o OrderById(ids \ {m})

\* all_objects = models.Manager(): every row of the table (Meta.ordering = ['id']).
AllObjects(table) == OrderById(DOMAIN table)

GetQuerysetUnfiltered(table) == OrderById(DOMAIN table)

\* SoftDeleteManager.get_queryset: filter(deleted_at__isnull=True).order_by('id')
GetQueryset(table) ==
    OrderById({ id \in DOMAIN table : table[id].deleted_at = None })

\* objects.filter(ext_id=ext_id).exists() on the default manager of one class
ExtExists(table, ext_id) ==
    \E k \in 1..Len(GetQueryset(table)) : table[GetQueryset(table)[k]].ext_id = ext_id

GenerateUniqueExtUnchecked(table, length) == GenerateExt(length)

\* generate_unique_ext(instance, length): the ids a call can return.  The
\* loop body returns at once, so the candidate is returned when no row of
\* instance.__class__.objects holds it, and the function recurses with a new
\* candidate otherwise.
GenerateUniqueExt(table, length) ==
    { c \in GenerateExt(length) : ~ExtExists(table, c) }

\* ---- the store ----------------------------------------------------------
NoUniqueViolation(table, ext_id, pk) == FALSE

\* ext_id = CharField(unique=True): the table's unique index rejects a row
\* whose ext_id another row of the same table holds.
UniqueViolation(table, ext_id, pk) ==
    \E id \in DOMAIN table : Some(id) # pk /\ table[id].ext_id = ext_id

Row(i) ==
    [ext_id |-> i.ext_id, deleted_at |-> i.deleted_at, updated_user |-> i.updated_user]

\* models.Model.save: INSERT when the instance has no pk, UPDATE otherwise.
\* Gives the instance, the store and the outcome after the call.
ModelSave(i, st) ==
    IF UniqueViolation(st[i.type], i.ext_id, i.pk)
    THEN [i |-> i, st |-> st, outcome |-> "IntegrityError"]
    ELSE IF i.pk = None
    THEN [i |-> [i EXCEPT !.pk = Some(Len(st[i.type]) + 1)],
          st |-> [st EXCEPT ![i.type] = Append(@, Row(i))],
          outcome |-> "ok"]
    ELSE [i |-> i,
          st |-> [st EXCEPT ![i.type][i.pk[1]] = Row(i)],
          outcome |-> "ok"]

\* generate_unique_ext can end in RecursionError: every colliding draw nests
\* one more call, so a run of colliding draws as long as the stack allows,
\* which some draw makes possible as soon as one candidate collides, raises.
CanExhaust(table, length) ==
    \E c \in GenerateExt(length) : ExtExists(table, c)

SaveResultsRegenerate(i, st) ==
    { ModelSave([i EXCEPT !.ext_id = c], st) :
          c \in GenerateUniqueExt(st[i.type], DefaultLength) }
    \cup (IF CanExhaust(st[i.type], DefaultLength)
          THEN { [i |-> i, st |-> st, outcome |-> "RecursionError"] }
          ELSE {})

\* BaseModel.save: the results a call can have.
SaveResults(i, st) ==
    IF i.ext_id = << >>
    THEN { ModelSave([i EXCEPT !.ext_id = c], st) :
               c \in GenerateUniqueExt(st[i.type], DefaultLength) }
         \cup (IF CanExhaust(st[i.type], DefaultLength)
               THEN { [i |-> i, st |-> st, outcome |-> "RecursionError"] }
               ELSE {})
    ELSE { ModelSave(i, st) }

\* ---- audit log ----------------------------------------------------------
\* A LogEntry row.  rec and by_caller are not columns: they record the instance
\* the call was made on and whether a caller (not delete or restore) made it.
Entry(i, r, user, action_flag, message, time) ==
    [user |-> user, content_type |-> i.type, object_id |-> i.pk,
     action_flag |-> action_flag, message |-> message, action_time |-> time,
     rec |-> r, by_caller |-> FALSE]

RECURSIVE OrderByTimeDesc(_)
\* order_by('-action_time') over a set of positions of logs.
OrderByTimeDesc(ks) ==
    IF ks = {} THEN << >>
    ELSE LET m == CHOOSE x \in ks :
                      \A y \in ks : logs[x].action_time >= logs[y].action_time
         IN << logs[m] >> \o OrderByTimeDesc(ks \ {m})

\* BaseModel.all_logs:
\* LogEntry.objects.filter(content_type=..., object_id=self.pk).order_by('-action_time')
AllLogs(r) ==
    OrderByTimeDesc({ k \in 1..Len(logs) :
        /\ logs[k].content_type = inst[r].type
        /\ logs[k].object_id = inst[r].pk })

IsDeletedInverted(r) == inst[r].deleted_at = None

\* BaseModel.is_deleted
IsDeleted(r) == inst[r].deleted_at # None

\* BaseModel.log_action called on instance i (the r-th) with the LogEntry
\* table lg at time clk: user.pk raises AttributeError when user is None,
\* otherwise one row is created with object_id = self.pk as it is now.
LogActionResult(i, r, user, action_flag, message, lg, clk) ==
    IF user = NoUser
    THEN [logs |-> lg, clock |-> clk, outcome |-> "AttributeError"]
    ELSE [logs |-> Append(lg, Entry(i, r, user, action_flag,
                                    IF message = None THEN "" ELSE message[1],
                                    clk + 1)),
          clock |-> clk + 1, outcome |-> "ok"]

\* What last holds: the call, the instance it was made on and that instance's
\* pk when it was made, the user passed, the exception raised ("ok" if none)
\* and whether the call's save() reached the store.
Called(op, r, pk, user, outcome, saved) ==
    [op |-> op, rec |-> r, pk |-> pk, user |-> user, outcome |-> outcome,
     saved |-> saved]

\* ---- the calls ----------------------------------------------------------
\* instance.save()
Save(r) ==
    \E res \in SaveResults(inst[r], store) :
        /\ inst' = [inst EXCEPT ![r] = res.i]
        /\ store' = res.st
        /\ last' = Called("save", r, inst[r].pk, NoUser, res.outcome, res.outcome = "ok")
        /\ UNCHANGED << logs, clock, gen >>

\* delete() that marks the instance before it looks at the user.
DeleteMarksFirst(r, user) ==
    IF user = NoUser
    THEN /\ Len(logs) < MaxLogs
         /\ inst' = [inst EXCEPT ![r].deleted_at = Some(clock + 1)]
         /\ clock' = clock + 1
         /\ last' = Called("delete", r, inst[r].pk, user, "ValueError", FALSE)
         /\ UNCHANGED << store, logs, gen >>
    ELSE /\ Len(logs) < MaxLogs
         /\ LET i1 == [inst[r] EXCEPT !.deleted_at = Some(clock + 1),
                                      !.updated_user = user]
                lg == LogActionResult(i1, r, i1.updated_user, DELETION,
                                      Some("Object soft deleted"), logs, clock + 1)
            IN \E res \in SaveResults(i1, store) :
                   /\ inst' = [inst EXCEPT ![r] = res.i]
                   /\ store' = res.st
                   /\ logs' = lg.logs
                   /\ clock' = lg.clock
                   /\ gen' = gen
                   /\ last' = Called("delete", r, inst[r].pk, user, res.outcome, res.outcome = "ok")

\* delete() that logs the user but leaves updated_user as it was.
DeleteKeepsUser(r, user) ==
    IF user = NoUser
    THEN /\ last' = Called("delete", r, inst[r].pk, user, "ValueError", FALSE)
         /\ UNCHANGED << inst, store, logs, clock, gen >>
    ELSE /\ Len(logs) < MaxLogs
         /\ LET i1 == [inst[r] EXCEPT !.deleted_at = Some(clock + 1)]
                lg == LogActionResult(i1, r, user, DELETION,
                                      Some("Object soft deleted"), logs, clock + 1)
            IN \E res \in SaveResults(i1, store) :
                   /\ inst' = [inst EXCEPT ![r] = res.i]
                   /\ store' = res.st
                   /\ logs' = lg.logs
                   /\ clock' = lg.clock
                   /\ gen' = gen
                   /\ last' = Called("delete", r, inst[r].pk, user, res.outcome, res.outcome = "ok")

\* instance.delete(user=user); user = NoUser is the call without a user.
Delete(r, user) ==
    IF user = NoUser
    THEN /\ last' = Called("delete", r, inst[r].pk, user, "ValueError", FALSE)
         /\ UNCHANGED << inst, store, logs, clock, gen >>
    ELSE /\ Len(logs) < MaxLogs
         /\ LET i1 == [inst[r] EXCEPT !.deleted_at = Some(clock + 1),
                                      !.updated_user = user]
                lg == LogActionResult(i1, r, i1.updated_user, DELETION,
                                      Some("Object soft deleted"), logs, clock + 1)
            IN \E res \in SaveResults(i1, store) :
                   /\ inst' = [inst EXCEPT ![r] = res.i]
                   /\ store' = res.st
                   /\ logs' = lg.logs
                   /\ clock' = lg.clock
                   /\ gen' = gen
                   /\ last' = Called("delete", r, inst[r].pk, user, res.outcome, res.outcome = "ok")

\* restore() without its log_action call.
RestoreSilent(r) ==
    /\ Len(logs) < MaxLogs
    /\ LET i1 == [inst[r] EXCEPT !.deleted_at = None]
       IN \E res \in SaveResults(i1, store) :
              /\ inst' = [inst EXCEPT ![r] = res.i]
              /\ store' = res.st
              /\ last' = Called("restore", r, inst[r].pk, NoUser, res.outcome, res.outcome = "ok")
              /\ UNCHANGED << logs, clock, gen >>

\* restore() without its save() call.
RestoreUnsaved(r) ==
    /\ Len(logs) < MaxLogs
    /\ LET i1 == [inst[r] EXCEPT !.deleted_at = None]
           lg == LogActionResult(i1, r, i1.updated_user, CHANGE,
                                 Some("Object restored"), logs, clock)
       IN /\ inst' = [inst EXCEPT ![r] = i1]
          /\ logs' = lg.logs
          /\ clock' = lg.clock
          /\ gen' = gen
          /\ last' = Called("restore", r, inst[r].pk, NoUser, lg.outcome, FALSE)
          /\ UNCHANGED store

\* instance.restore()
Restore(r) ==
    /\ Len(logs) < MaxLogs
    /\ LET i1 == [inst[r] EXCEPT !.deleted_at = None]
       IN \E res \in SaveResults(i1, store) :
              LET lg == IF res.outcome = "ok"
                        THEN LogActionResult(res.i, r, res.i.updated_user, CHANGE,
                                             Some("Object restored"), logs, clock)
                        ELSE [logs |-> logs, clock |-> clock, outcome |-> res.outcome]
              IN /\ inst' = [inst EXCEPT ![r] = res.i]
                 /\ store' = res.st
                 /\ logs' = lg.logs
                 /\ clock' = lg.clock
                 /\ gen' = gen
                 /\ last' = Called("restore", r, inst[r].pk, NoUser, lg.outcome, res.outcome = "ok")

\* instance.log_action(user, action_flag, message) by a caller
LogAction(r, user, action_flag, message) ==
    /\ Len(logs) < MaxLogs
    /\ Cardinality({ k \in 1..Len(logs) : logs[k].by_caller }) < MaxLogCalls
    /\ LET lg == LogActionResult(inst[r], r, user, action_flag, message, logs, clock)
       IN /\ logs' = [k \in 1..Len(lg.logs) |->
                        IF k > Len(logs) THEN [lg.logs[k] EXCEPT !.by_caller = TRUE]
                        ELSE lg.logs[k]]
          /\ clock' = lg.clock
          /\ gen' = gen
          /\ last' = Called("log_action", r, inst[r].pk, user, lg.outcome, FALSE)
          /\ UNCHANGED << inst, store >>

\* instance.is_deleted(): the value returned is recorded as the outcome.
IsDeletedCall(r) ==
    /\ last' = Called("is_deleted", r, inst[r].pk, NoUser,
                      IF IsDeleted(r) THEN "True" ELSE "False", FALSE)
    /\ UNCHANGED << inst, store, logs, clock, gen >>

\* No generate_unique_ext call is being followed.
GenIdle == [pc |-> "idle", rec |-> 1, length |-> DefaultLength, depth |-> 0, cand |-> << >>]

\* The instances as their constructors leave them: not saved (no pk), no
\* ext_id, not deleted, updated_user as the caller passed it.
Init ==
    /\ inst \in [RecIds -> [type : Types, pk : {None}, ext_id : {<< >>},
                            deleted_at : {None}, updated_user : Users \cup {NoUser}]]
    /\ store = [t \in Types |-> << >>]
    /\ logs = << >>
    /\ clock = 0
    /\ last = Called("init", 1, None, NoUser, "ok", FALSE)
    /\ gen = GenIdle

Next ==
    \/ \E r \in RecIds : Save(r)
    \/ \E r \in RecIds, user \in Users \cup {NoUser} : Delete(r, user)
    \/ \E r \in RecIds : Restore(r)
    \/ \E r \in RecIds, user \in Users \cup {NoUser}, f \in ActionFlags :
           LogAction(r, user, f, Some("note"))
    \/ \E r \in RecIds : IsDeletedCall(r)

Spec == Init /\ [][Next]_vars

\* ---- save() of several requests interleaved -----------------------------
\* The first statement of BaseModel.save, run by the request that saves
\* instance r: `if not self.ext_id: self.ext_id = generate_unique_ext(self)`.
SaveGenerate(r) ==
    /\ inst[r].ext_id = << >>
    /\ \/ /\ \E c \in GenerateUniqueExt(store[inst[r].type], DefaultLength) :
                  inst' = [inst EXCEPT ![r].ext_id = c]
          /\ last' = Called("save_generate", r, inst[r].pk, NoUser, "ok", FALSE)
       \/ /\ CanExhaust(store[inst[r].type], DefaultLength)
          /\ last' = Called("save_generate", r, inst[r].pk, NoUser,
                            "RecursionError", FALSE)
          /\ UNCHANGED inst
    /\ UNCHANGED << store, logs, clock, gen >>

\* The second statement of BaseModel.save, `super().save(*args, **kwargs)`,
\* run later by the same request: the store takes or rejects the row.
SaveStore(r) ==
    /\ inst[r].ext_id # << >>
    /\ LET res == ModelSave(inst[r], store)
       IN /\ inst' = [inst EXCEPT ![r] = res.i]
          /\ store' = res.st
          /\ last' = Called("save_store", r, inst[r].pk, NoUser, res.outcome,
                            res.outcome = "ok")
    /\ UNCHANGED << logs, clock, gen >>

NextConc ==
    \/ \E r \in RecIds : SaveGenerate(r)
    \/ \E r \in RecIds : SaveStore(r)

\* Every instance is saved by a request of its own; the requests interleave
\* between the uniqueness check and the insert.
SpecConc == Init /\ [][NextConc]_vars

\* ---- generate_unique_ext followed call by call --------------------------
RECURSIVE RowsOf(_, _)
\* A table holding one row for each ext_id of exts, soft-deleted for those in
\* deleted: rows that earlier requests left in the store.
RowsOf(exts, deleted) ==
    IF exts = {} THEN << >>
    ELSE LET e == CHOOSE x \in exts : TRUE
         IN << [ext_id |-> e,
                deleted_at |-> IF e \in deleted THEN Some(0) ELSE None,
                updated_user |-> IF e \in deleted THEN "u1" ELSE NoUser] >>
            \o RowsOf(exts \ {e}, deleted)

\* save() is called on instance r, which has no ext_id, and enters
\* generate_unique_ext(self) with the default length.
GenStart(r) ==
    /\ gen.pc = "idle"
    /\ inst[r].ext_id = << >>
    /\ gen' = [pc |-> "draw", rec |-> r, length |-> DefaultLength, depth |-> 1,
               cand |-> << >>]
    /\ UNCHANGED << inst, store, logs, clock, last >>

\* ext_id = generate_ext(length)
GenDraw ==
    /\ gen.pc = "draw"
    /\ \E c \in GenerateExt(gen.length) : gen' = [gen EXCEPT !.cand = c, !.pc = "check"]
    /\ UNCHANGED << inst, store, logs, clock, last >>

GenCheckInverted ==
    /\ gen.pc = "check"
    /\ gen' = IF ExtExists(store[inst[gen.rec].type], gen.cand)
              THEN [gen EXCEPT !.pc = "return"]
              ELSE IF gen.depth < RecursionLimit
              THEN [gen EXCEPT !.pc = "draw", !.depth = @ + 1]
              ELSE [gen EXCEPT !.pc = "RecursionError"]
    /\ UNCHANGED << inst, store, logs, clock, last >>

\* `while not ...exists(): return ext_id`, else
\* `return generate_unique_ext(instance, length)`: a nested call, which the
\* interpreter refuses with RecursionError when the stack is full.
GenCheck ==
    /\ gen.pc = "check"
    /\ gen' = IF ~ExtExists(store[inst[gen.rec].type], gen.cand)
              THEN [gen EXCEPT !.pc = "return"]
              ELSE IF gen.depth < RecursionLimit
              THEN [gen EXCEPT !.pc = "draw", !.depth = @ + 1]
              ELSE [gen EXCEPT !.pc = "RecursionError"]
    /\ UNCHANGED << inst, store, logs, clock, last >>

\* The calls return the accepted candidate down to save(), which assigns it
\* and calls super().save().
GenReturn ==
    /\ gen.pc = "return"
    /\ LET r == gen.rec
           res == ModelSave([inst[r] EXCEPT !.ext_id = gen.cand], store)
       IN /\ inst' = [inst EXCEPT ![r] = res.i]
          /\ store' = res.st
          /\ last' = Called("save", r, inst[r].pk, NoUser, res.outcome,
                            res.outcome = "ok")
    /\ gen' = GenIdle
    /\ UNCHANGED << logs, clock >>

\* RecursionError unwinds the calls and leaves save() before it assigned or
\* stored anything.
GenRaise ==
    /\ gen.pc = "RecursionError"
    /\ last' = Called("save", gen.rec, inst[gen.rec].pk, NoUser, "RecursionError", FALSE)
    /\ gen' = GenIdle
    /\ UNCHANGED << inst, store, logs, clock >>

\* New instances, and tables in which any of the candidates may already be
\* held by an active or a soft-deleted row.
InitGen ==
    /\ inst \in [RecIds -> [type : Types, pk : {None}, ext_id : {<< >>},
                            deleted_at : {None}, updated_user : {NoUser}]]
    /\ \E held \in [Types -> SUBSET GenerateExt(DefaultLength)] :
           \E deleted \in [Types -> SUBSET GenerateExt(DefaultLength)] :
               /\ \A t \in Types : deleted[t] \subseteq held[t]
               /\ store = [t \in Types |-> RowsOf(held[t], deleted[t])]
    /\ logs = << >>
    /\ clock = 0
    /\ last = Called("init", 1, None, NoUser, "ok", FALSE)
    /\ gen = GenIdle

GenRunning == GenDraw \/ GenCheck \/ GenReturn \/ GenRaise

NextGen ==
    \/ \E r \in RecIds : GenStart(r)
    \/ GenDraw
    \/ GenCheck
    \/ GenReturn
    \/ GenRaise

\* A call that has started keeps running: the request executes it to its end.
SpecGen == InitGen /\ [][NextGen]_vars /\ WF_vars(GenRunning)

\* ---- properties ---------------------------------------------------------
Lowercase ==
    { "a", "b", "c", "d", "e", "f", "g", "h", "i", "j", "k", "l", "m",
      "n", "o", "p", "q", "r", "s", "t", "u", "v", "w", "x", "y", "z" }
Digits == { "0", "1", "2", "3", "4", "5", "6", "7", "8", "9" }

\* The row of instance r in a store st (r has a pk).
RowOf(st, i) == st[i.type][i.pk[1]]
Persisted(r) == inst[r].pk # None

C2_DeleteWithoutUser ==
    [][(last'.op = "delete" /\ last'.user = NoUser)
          => (last'.outcome = "ValueError" /\ UNCHANGED << inst, store, logs >>)]_vars

\* delete() without a user was called on a persisted, active record.
C2_Witness ==
    /\ last.op = "delete" /\ last.user = NoUser /\ last.outcome = "ValueError"
    /\ Persisted(last.rec)
    /\ inst[last.rec].deleted_at = None
    /\ inst[last.rec].updated_user # NoUser

C3Enum ==
    \A t \in Types :
        LET q == GetQueryset(store[t])
            a == AllObjects(store[t])
        IN /\ { q[k] : k \in 1..Len(q) }
                  = { id \in 1..Len(store[t]) : store[t][id].deleted_at = None }
           /\ \A j \in 1..Len(q), k \in 1..Len(q) : j < k => q[j] < q[k]
           /\ { a[k] : k \in 1..Len(a) } = 1..Len(store[t])
           /\ Len(a) = Len(store[t])

C3Step ==
    \A r \in RecIds :
        (/\ last'.op = "delete" /\ last'.rec = r /\ last'.outcome = "ok"
         /\ Persisted(r)
         /\ RowOf(store, inst[r]).deleted_at = None)
        => LET t == inst[r].type
           IN /\ Len(GetQueryset(store'[t])) = Len(GetQueryset(store[t])) - 1
              /\ Len(AllObjects(store'[t])) = Len(AllObjects(store[t]))

\* C3: the default manager gives the rows with deleted_at null in ascending
\* id order and all_objects gives every row; soft-deleting one of N active
\* rows leaves N-1 in the default enumeration and N in the unrestricted one.
C3_Enumeration == []C3Enum /\ [][C3Step]_vars

\* One of two rows of a type has just been soft-deleted.
C3_Witness ==
    /\ last.op = "delete" /\ last.outcome = "ok" /\ last.pk # None
    /\ LET t == inst[last.rec].type
       IN Len(AllObjects(store[t])) = 2 /\ Len(GetQueryset(store[t])) = 1

\* C4: delete(user) and then restore() on a persisted record leave deleted_at
\* null, the row in the default enumeration, and all_logs() starting with the
\* "Object restored" entry followed by the "Object soft deleted" entry.
C4_DeleteThenRestore ==
    [][\A r \in RecIds :
          (/\ last.op = "delete" /\ last.rec = r /\ last.outcome = "ok"
           /\ last.pk # None
           /\ last'.op = "restore" /\ last'.rec = r)
          => /\ inst'[r].deleted_at = None
             /\ RowOf(store', inst'[r]).deleted_at = None
             /\ \E k \in 1..Len(GetQueryset(store'[inst[r].type])) :
                    Some(GetQueryset(store'[inst[r].type])[k]) = inst'[r].pk
             /\ Len(AllLogs(r)') >= 2
             /\ AllLogs(r)'[1].message = "Object restored"
             /\ AllLogs(r)'[2].message = "Object soft deleted"]_vars

\* restore() has just followed delete(user) on a persisted record.
C4_Witness ==
    /\ last.op = "restore" /\ last.outcome = "ok" /\ last.pk # None
    /\ Len(AllLogs(last.rec)) >= 2
    /\ AllLogs(last.rec)[1].action_time = clock
    /\ AllLogs(last.rec)[2].action_flag = DELETION
    /\ AllLogs(last.rec)[2].action_time = clock - 1

\* C5: a successful delete(user) on a persisted record sets deleted_at, sets
\* updated_user to the user, appends exactly one DELETION entry "Object soft
\* deleted" for that user and this record's type and pk, and saves the row
\* with those values.
C5_DeleteEffect ==
    [][\A r \in RecIds, u \in Users :
          (/\ last'.op = "delete" /\ last'.rec = r /\ last'.user = u
           /\ last'.outcome = "ok"
           /\ Persisted(r))
          => /\ inst'[r].deleted_at # None
             /\ inst'[r].updated_user = u
             /\ inst'[r].pk = inst[r].pk
             /\ Len(logs') = Len(logs) + 1
             /\ SubSeq(logs', 1, Len(logs)) = logs
             /\ logs'[Len(logs')].action_flag = DELETION
             /\ logs'[Len(logs')].message = "Object soft deleted"
             /\ logs'[Len(logs')].user = u
             /\ logs'[Len(logs')].content_type = inst[r].type
             /\ logs'[Len(logs')].object_id = inst[r].pk
             /\ RowOf(store', inst'[r]).deleted_at = inst'[r].deleted_at
             /\ RowOf(store', inst'[r]).updated_user = u]_vars

\* delete(user) has just succeeded on a persisted record that another user
\* had updated.
C5_Witness ==
    /\ last.op = "delete" /\ last.outcome = "ok" /\ last.pk # None
    /\ last.user = "u2"
    /\ RowOf(store, inst[last.rec]).updated_user = "u2"
    /\ \E k \in 1..Len(logs) : logs[k].rec = last.rec /\ logs[k].user = "u1"

\* C6 (as stated): restore() on a persisted record ends without error
\* whatever updated_user holds, leaves deleted_at null in the store, appends
\* exactly one CHANGE entry "Object restored" and leaves updated_user alone.
C6_RestoreWithoutUser ==
    [][\A r \in RecIds :
          (last'.op = "restore" /\ last'.rec = r /\ Persisted(r))
          => /\ last'.outcome = "ok"
             /\ RowOf(store', inst'[r]).deleted_at = None
             /\ Len(logs') = Len(logs) + 1
             /\ SubSeq(logs', 1, Len(logs)) = logs
             /\ logs'[Len(logs')].action_flag = CHANGE
             /\ logs'[Len(logs')].message = "Object restored"
             /\ inst'[r].updated_user = inst[r].updated_user]_vars

\* C7 (as stated): all_logs() of a record is exactly the entries written by
\* the calls made on that record, most recent first.
C7_AuditLog ==
    \A r \in RecIds :
        AllLogs(r) = OrderByTimeDesc({ k \in 1..Len(logs) : logs[k].rec = r })

\* C8: no call removes a row or changes the id under which it is found, and
\* restore() on a soft-deleted row brings it back to the default enumeration.
C8_NeverPurged ==
    [][/\ \A t \in Types : \A id \in DOMAIN store[t] : id \in DOMAIN store'[t]
       /\ \A r \in RecIds :
              Persisted(r) =>
                  /\ inst'[r].pk = inst[r].pk
                  /\ inst'[r].type = inst[r].type
                  /\ RowOf(store', inst'[r]).ext_id = RowOf(store, inst[r]).ext_id
       /\ \A r \in RecIds :
              (/\ last'.op = "restore" /\ last'.rec = r
               /\ Persisted(r)
               /\ RowOf(store, inst[r]).deleted_at # None)
              => /\ RowOf(store', inst'[r]).deleted_at = None
                 /\ \E k \in 1..Len(GetQueryset(store'[inst[r].type])) :
                        Some(GetQueryset(store'[inst[r].type])[k]) = inst[r].pk]_vars

\* restore() was called on a row that delete(user) had soft-deleted, in a
\* table of two rows.
C8_Witness ==
    /\ last.op = "restore" /\ last.pk # None
    /\ RowOf(store, inst[last.rec]).deleted_at = None
    /\ \E k \in 1..Len(logs) :
           /\ logs[k].rec = last.rec /\ logs[k].object_id = last.pk
           /\ logs[k].action_flag = DELETION /\ ~logs[k].by_caller
    /\ Len(store[inst[last.rec].type]) = 2

\* C9: a save() that reaches the store for an instance whose ext_id was unset
\* leaves a row whose ext_id has exactly 10 characters, each a lowercase
\* letter or a digit.
C9_GeneratedFormat ==
    [][\A r \in RecIds :
          (inst[r].ext_id = << >> /\ last'.rec = r /\ last'.saved)
          => /\ Len(RowOf(store', inst'[r]).ext_id) = 10
             /\ \A k \in 1..10 :
                    RowOf(store', inst'[r]).ext_id[k] \in Lowercase \cup Digits]_vars

\* save() has just inserted an instance that had no ext_id, and the table
\* already held a row.
C9_Witness ==
    /\ last.op = "save" /\ last.saved /\ last.pk = None
    /\ inst[last.rec].pk = Some(2)
    /\ Len(RowOf(store, inst[last.rec]).ext_id) = 10

\* C10: once an instance holds a non-empty ext_id no call changes it, in the
\* instance or in its row.
C10_ExtIdImmutable ==
    [][\A r \in RecIds :
          inst[r].ext_id # << >>
          => /\ inst'[r].ext_id = inst[r].ext_id
             /\ Persisted(r) =>
                    RowOf(store', inst'[r]).ext_id = RowOf(store, inst[r]).ext_id]_vars

\* save() was called again on a persisted record with its ext_id set, after
\* a delete and a restore.
C10_Witness ==
    /\ last.op = "save" /\ last.saved /\ last.pk # None
    /\ inst[last.rec].ext_id # << >>
    /\ \E k \in 1..Len(logs) : logs[k].rec = last.rec /\ logs[k].action_flag = CHANGE

\* C11: for a persisted record is_deleted() returns True exactly when the
\* row's deleted_at is set, which is exactly when the row is missing from the
\* default manager's queryset; the call changes no field, row or log entry.
C11_IsDeleted ==
    /\ [](\A r \in RecIds :
            Persisted(r) =>
                /\ IsDeleted(r) <=> (RowOf(store, inst[r]).deleted_at # None)
                /\ IsDeleted(r) <=>
                       ~(\E k \in 1..Len(GetQueryset(store[inst[r].type])) :
                            Some(GetQueryset(store[inst[r].type])[k]) = inst[r].pk))
    /\ [][last'.op = "is_deleted"
             => /\ UNCHANGED << inst, store, logs, clock >>
                /\ last'.outcome = IF inst[last'.rec].deleted_at # None
                                   THEN "True" ELSE "False"]_vars

\* is_deleted() has just returned True for a persisted record.
C11_Witness ==
    /\ last.op = "is_deleted" /\ last.outcome = "True" /\ last.pk # None
    /\ RowOf(store, inst[last.rec]).deleted_at # None

\* C12: when the insert of a new record finds its ext_id already in a row of
\* the same table (the other request inserted first) the store rejects it with
\* IntegrityError and nothing is written; no interleaving of saves leaves two
\* rows of one type with the same ext_id.
C12_RaceRejected ==
    /\ [](\A t \in Types :
            Cardinality({ store[t][id].ext_id : id \in DOMAIN store[t] })
                = Len(store[t]))
    /\ [][\A r \in RecIds :
             (/\ last'.op = "save_store" /\ last'.rec = r
              /\ ~Persisted(r)
              /\ \E id \in DOMAIN store[inst[r].type] :
                     store[inst[r].type][id].ext_id = inst[r].ext_id)
             => /\ last'.outcome = "IntegrityError"
                /\ UNCHANGED << inst, store >>]_vars

\* Two requests passed the check with the same candidate; one inserted, the
\* other's insert has just been rejected though the first row is active.
C12_Witness ==
    /\ last.op = "save_store" /\ last.outcome = "IntegrityError"
    /\ ~Persisted(last.rec)
    /\ \E r \in RecIds :
           /\ r # last.rec /\ Persisted(r)
           /\ inst[r].type = inst[last.rec].type
           /\ inst[r].ext_id = inst[last.rec].ext_id
           /\ RowOf(store, inst[r]).deleted_at = None

\* C13 (as stated): a call that gives an instance its ext_id returns a
\* candidate that a row seen by the check already holds, never a free one.
C13_Inverted ==
    [][\A r \in RecIds :
          (inst[r].ext_id = << >> /\ inst'[r].ext_id # << >>)
          => ExtExists(store[inst[r].type], inst'[r].ext_id)]_vars

\* C13 (amended): the candidate generate_unique_ext returns is one that no
\* active row of the instance's own type held when the call was made.
C13_AcceptsFree ==
    [][\A r \in RecIds :
          (inst[r].ext_id = << >> /\ inst'[r].ext_id # << >>)
          => \A id \in DOMAIN store[inst[r].type] :
                 store[inst[r].type][id].deleted_at = None
                     => store[inst[r].type][id].ext_id # inst'[r].ext_id]_vars

\* save() has just generated an ext_id for a new instance while an active
\* row of its type held another one.
C13_Witness ==
    /\ last.op = "save" /\ last.saved /\ last.pk = None
    /\ LET t == inst[last.rec].type
       IN /\ Len(store[t]) = 2
          /\ store[t][1].deleted_at = None
          /\ store[t][2].deleted_at = None
          /\ store[t][1].ext_id # store[t][2].ext_id

\* C14 (as stated, for the rows of the instance's own type): the candidate a
\* save() accepts is held by no row, active or soft-deleted, and so a save()
\* of an instance without ext_id, with no other writer, is never rejected by
\* the unique index.
C14_CheckSeesAllRows ==
    [][\A r \in RecIds :
          (inst[r].ext_id = << >> /\ last'.rec = r
           /\ last'.op \in {"save", "delete", "restore"})
          => /\ last'.outcome # "IntegrityError"
             /\ inst'[r].ext_id # << >>
                    => \A id \in DOMAIN store[inst[r].type] :
                           store[inst[r].type][id].ext_id # inst'[r].ext_id]_vars

\* Every candidate of the default length is held by an active row of the
\* type of the instance being saved.
AllTaken ==
    \A c \in GenerateExt(DefaultLength) : ExtExists(store[inst[gen.rec].type], c)

\* C15 (as stated): there is no limit on the retries: after every collision a
\* fresh candidate of the same length is drawn, the call never fails, and it
\* returns no id when every candidate is taken.
C15_NoRetryLimit ==
    [][/\ (gen.pc = "check" /\ ExtExists(store[inst[gen.rec].type], gen.cand))
          => (gen'.pc = "draw" /\ gen'.length = gen.length)
       /\ gen'.pc \notin {"RecursionError", "GenerationExhausted"}
       /\ (gen.pc # "idle" /\ AllTaken) => gen'.pc # "return"]_vars

\* C15 (amended): a collision is followed by a fresh draw of the same length
\* in a nested call or, when the stack is full, by RecursionError (there is
\* no GenerationExhausted); the id returned passed the check; when every
\* candidate is taken no id is returned; and every call ends, with an id or
\* with RecursionError.
C15_RetriesUntilStackFull ==
    /\ [][/\ (gen.pc = "check" /\ ExtExists(store[inst[gen.rec].type], gen.cand))
             => \/ /\ gen.depth < RecursionLimit
                   /\ gen'.pc = "draw" /\ gen'.depth = gen.depth + 1
                   /\ gen'.length = gen.length
                \/ /\ gen.depth = RecursionLimit
                   /\ gen'.pc = "RecursionError"
          /\ (gen.pc = "check" /\ ~ExtExists(store[inst[gen.rec].type], gen.cand))
             => gen'.pc = "return"
          /\ gen'.pc = "check" => Len(gen'.cand) = DefaultLength
          /\ (gen.pc # "idle" /\ AllTaken) => gen'.pc # "return"
           /\ last'.outcome \in {"ok", "IntegrityError", "RecursionError"}]_vars
    /\ (gen.pc # "idle") ~> (gen.pc = "idle")

\* A call has ended in RecursionError although a candidate was free.
C15_Witness ==
    /\ gen.pc = "RecursionError"
    /\ gen.depth = RecursionLimit
    /\ ~AllTaken

\* C16 (as stated): a delete(user) whose save() the store rejects leaves no
\* audit entry behind.
C16_NoEntryWithoutDelete ==
    [][(last'.op = "delete" /\ last'.user # NoUser
        /\ last'.outcome = "IntegrityError")
          => logs' = logs]_vars

\* The deletion entries that delete() wrote for instance r.
DeletionEntries(r) ==
    { k \in 1..Len(logs) :
        logs[k].rec = r /\ logs[k].action_flag = DELETION /\ ~logs[k].by_caller }

\* C17 (as stated): a row goes from active to soft-deleted only by
\* delete(user) and back only by restore(); delete(user) on a soft-deleted
\* row and restore() on an active row leave it as it is and append exactly
\* one entry; the deletion entries of a record grow by one exactly with each
\* successful delete(user) on it.
C17_Lifecycle ==
    [][\A r \in RecIds :
          /\ Persisted(r) =>
                 /\ (RowOf(store, inst[r]).deleted_at = None
                     /\ RowOf(store', inst'[r]).deleted_at # None)
                    => (last'.op = "delete" /\ last'.rec = r)
                 /\ (RowOf(store, inst[r]).deleted_at # None
                     /\ RowOf(store', inst'[r]).deleted_at = None)
                    => (last'.op = "restore" /\ last'.rec = r)
                 /\ (last'.op = "delete" /\ last'.rec = r /\ last'.user # NoUser
                     /\ RowOf(store, inst[r]).deleted_at # None)
                    => /\ RowOf(store', inst'[r]).deleted_at # None
                       /\ Len(logs') = Len(logs) + 1
                 /\ (last'.op = "restore" /\ last'.rec = r
                     /\ RowOf(store, inst[r]).deleted_at = None)
                    => /\ RowOf(store', inst'[r]).deleted_at = None
                       /\ Len(logs') = Len(logs) + 1
          /\ Cardinality(DeletionEntries(r)')
                 = Cardinality(DeletionEntries(r))
                   + (IF last'.op = "delete" /\ last'.rec = r /\ last'.outcome = "ok"
                      THEN 1 ELSE 0)]_vars

====
